---- MODULE Spec2Model ----
(***************************************************************************)
(* The serial particle-in-cell kernel, src/SERIAL/PIC/pic.c.               *)
(*                                                                         *)
(* Units.  Every initializer places a particle at offset (REL_X, REL_Y) =  *)
(* (0.5, 0.5) of a cell, so lengths are counted in half cells: a position  *)
(* x of the program is the integer 2*x here.  Velocities are in cells per  *)
(* step.  At offset (0.5, 0.5) finish_distribution computes                *)
(*   charge = 1 / (dt*dt*Q*(cos_theta/r1_sq + cos_phi/r2_sq)) = 1/(2*sqrt 2)*)
(* and charges of particles are counted in units of that value; forces and *)
(* accelerations are counted in halves (a force f of the program is the    *)
(* integer 2*f here).  With these units the arithmetic of the program on   *)
(* the half-cell lattice is exact integer arithmetic.                      *)
(***************************************************************************)
EXTENDS Integers, Sequences, FiniteSets

\* ---------------------------------------------------------------- bounds
MaxT == 1
MaxL == 2
MaxN == 2
MaxPPC == 1
MaxPatchN == 6
MaxPatchSide == 2
MaxVerifyStep == 2
MaxRemoveN == 3

\* ---------------------------------------------------- program constants
mass_inv == 1
Q == 1
\* epsilon = 0.000001 = 1 / epsilon_inv
epsilon_inv == 1000000
dt == 1
SUCCESS == 1
FAILURE == 0
EXIT_FAILURE == 1
\* REL_X = REL_Y = 0.5 cell = 1 half cell
REL_X == 1
REL_Y == 1
GEOMETRIC == 0
SINUSOIDAL == 1
LINEAR == 2
PATCH == 3
UNDEFINED == 4
\* status of a process killed by a null-pointer dereference (128 + SIGSEGV)
CRASHED == 139

VARIABLES
  pc,                  \* position in main
  exit_status,         \* status the process ended with (-1 while running)
  error,               \* history: the configuration error met, or "none"
  T, L, g, n, n_old, k, m,
  particle_mode, init_patch, rho, alpha, beta,
  injection_mode, removal_mode,
  injection_timestep, removal_timestep, particles_per_cell,
  injection_patch, removal_patch,
  particle_steps, partial_correctness, correct_simulation,
  Qgrid,               \* the g*g charges, indexed 0 .. g*g-1
  particles,           \* the particle array (its length is its capacity)
  t,                   \* loop counter of the time-step loop
  LCG_seed,            \* state of the pseudo-random generator
  verifications,       \* history: every verifyParticle call made
  injections,          \* history: the steps at which inject_particles ran
  removals             \* history: the steps at which remove_particles ran

scalarVars == <<T, L, g, n, k, m, particle_steps>>
initVars == <<particle_mode, init_patch, rho, alpha, beta>>
changeVars == <<injection_mode, removal_mode, injection_timestep,
                removal_timestep, particles_per_cell, injection_patch,
                removal_patch>>
runVars == <<n_old, partial_correctness, correct_simulation, Qgrid,
             particles, t, verifications, injections, removals>>
vars == <<pc, exit_status, error, scalarVars, initVars, changeVars, runVars,
          LCG_seed>>

\* ------------------------------------------------------------- arithmetic
Abs(a) == IF a < 0 THEN -a ELSE a

\* C's fmod on the lattice: the result has the sign of the dividend
fmod(a, b) == IF a >= 0 THEN a % b ELSE -((-a) % b)

\* floor of a position given in half cells, in cells
floor(a) == a \div 2

\* (int64_t) of a double given in half cells: truncation toward zero
trunc(a) == IF a >= 0 THEN a \div 2 ELSE -((-a) \div 2)

\* C's % on int64_t: the result has the sign of the dividend
cmod(a, b) == IF a >= 0 THEN a % b ELSE -((-a) % b)

\* ------------------------------------------------------------------ types
bbox_t(xl, xr, yb, yt) ==
  [xleft |-> xl, xright |-> xr, ybottom |-> yb, ytop |-> yt]

NoPatch == bbox_t(0, 0, 0, 0)

\* the patches the arguments are drawn from, relative to the grid size read:
\* one cell, all cells, the last grid column, the last grid row, a row beyond
\* the grid, and two empty ones
TestPatches(l) ==
  { bbox_t(0, 1, 0, 1), bbox_t(0, l, 0, l), bbox_t(l, l + 1, 0, 1),
    bbox_t(0, 1, l, l + 1), bbox_t(0, 1, l + 1, l + 2),
    bbox_t(1, 1, 0, 1), bbox_t(0, 1, 1, 0) }

\* the vertical velocities the arguments are drawn from
MValues == {-(MaxL + 1), -1, 0, 1}

\* the charge semi-increments the arguments are drawn from
KValues == {-1, 0, 1}

\* the initialization modes the arguments are drawn from
InitModes == {"GEOMETRIC", "SINUSOIDAL", "LINEAR", "PATCH", "OTHER"}

\* the attenuation factors (numerator, denominator) and the slope/constant
\* pairs the arguments are drawn from
RhoValues == {<<1, 2>>}
LinearValues == {<<1, 2>>}

\* ------------------------------------------------------------ the generator
\* lcg.h: a linear congruential generator seeded once per run; LCG_next(bound)
\* advances the seed and returns a value in [0, bound)
LCG_a == 5
LCG_c == 3
LCG_modulus == 16
LCG_seed0 == 1

LCG_advance(seed) == (LCG_a * seed + LCG_c) % LCG_modulus

LCG_next(seed, bound) == LCG_advance(seed) % bound

\* ------------------------------------------------------------------- grid
\* QG(i,j) is Qgrid[(j)*(g)+i]
QGindex(i, j, gg) == j * gg + i

\* initializeGrid with the sign taken from the parity of y instead of x
initializeGrid_by_row(gg) ==
  [idx \in 0..(gg * gg - 1) |-> IF (idx % gg) % 2 = 0 THEN Q ELSE -Q]

initializeGrid(gg) ==
  [idx \in 0..(gg * gg - 1) |-> IF (idx \div gg) % 2 = 0 THEN Q ELSE -Q]

\* What a read of Qgrid[idx] yields: the stored charge, or, outside the
\* allocation, whatever the memory there holds (either charge value here)
QGread(idx, grid) == IF idx \in DOMAIN grid THEN {grid[idx]} ELSE {Q, -Q}

\* one choice from each set of a sequence of sets
RECURSIVE Choices(_)
Choices(S) ==
  IF Len(S) = 0 THEN {<<>>}
  ELSE {Append(c, v) : c \in Choices(SubSeq(S, 1, Len(S) - 1)),
                       v \in S[Len(S)]}

\* -------------------------------------------------------------- particles
\* nmoves is a history field: the number of moveParticle calls on the record.
\* x and y are doubles: x_off and y_off hold what they differ by from the
\* half-cell lattice value, in units of 1 / SubUnits cell (0 wherever the run
\* computes positions, which the model takes to be exact)
particle_t(px, py) ==
  [x |-> px, y |-> py, v_x |-> 0, v_y |-> 0, q |-> 0, x0 |-> 0, y0 |-> 0,
   k |-> 0, m |-> 0, initTimestamp |-> 0, nmoves |-> 0,
   x_off |-> 0, y_off |-> 0]

RECURSIVE Pow(_, _)
Pow(a, e) == IF e = 0 THEN 1 ELSE a * Pow(a, e - 1)

RECURSIVE Sum(_, _)
Sum(f, hi) == IF hi < 0 THEN 0 ELSE f[hi] + Sum(f, hi - 1)

\* the cell columns of the particles placed column by column: counts[x]
\* times column x, for x = 0 .. hi
RECURSIVE Columns(_, _)
Columns(counts, hi) ==
  IF hi < 0 THEN <<>>
  ELSE Columns(counts, hi - 1) \o [i \in 1..counts[hi] |-> hi]

\* Places nn particles: particle pi gets column cols[pi] while pi <= Len(cols)
\* and the remaining ones column 0 (randomx = FALSE) or a drawn column; the
\* row is drawn for every particle.  Returns the array and the seed.
RECURSIVE PlaceColumns(_, _, _, _, _, _)
PlaceColumns(cols, randomx, nn, gg, seed, arr) ==
  IF Len(arr) = nn THEN [particles |-> arr, seed |-> seed]
  ELSE LET pi == Len(arr) + 1
           drawx == pi > Len(cols) /\ randomx
           s1 == IF drawx THEN LCG_advance(seed) ELSE seed
           xc == IF pi <= Len(cols) THEN cols[pi]
                 ELSE IF randomx THEN LCG_next(seed, gg - 1) ELSE 0
           s2 == LCG_advance(s1)
           yc == LCG_next(s1, gg - 1)
       IN PlaceColumns(cols, randomx, nn, gg, s2,
                       Append(arr, particle_t(2 * xc + REL_X, 2 * yc + REL_Y)))

\* n_part_column = floor(A * pow(rho, x)), A = n * ((1-rho) / (1-pow(rho, g-1)))
\* with rho = r[1] / r[2]
GeometricCount(nn, gg, r, x) ==
  (nn * (r[2] - r[1]) * Pow(r[1], x) * Pow(r[2], gg - 2 - x))
    \div (Pow(r[2], gg - 1) - Pow(r[1], gg - 1))

initializeParticlesGeometric(nn, gg, r, seed) ==
  LET counts == [x \in 0..(gg - 2) |-> GeometricCount(nn, gg, r, x)]
  IN PlaceColumns(Columns(counts, gg - 2), FALSE, nn, gg, seed, <<>>)

\* 2 * (1 + cos(2*pi*x / (g-2))) for the periods g-2 at which it is rational
SinusoidalWeight(x, gg) ==
  CASE gg - 2 = 1 -> 4
    [] gg - 2 = 2 -> IF x % 2 = 0 THEN 4 ELSE 0
    [] gg - 2 = 3 -> IF x % 3 = 0 THEN 4 ELSE 1
    [] gg - 2 = 4 -> IF x % 4 = 0 THEN 4 ELSE IF x % 2 = 0 THEN 0 ELSE 2

initializeParticlesSinusoidal(nn, gg, seed) ==
  LET w == [x \in 0..(gg - 2) |-> SinusoidalWeight(x, gg)]
      total_weight == Sum(w, gg - 2)
      counts == [x \in 0..(gg - 2) |-> (nn * w[x]) \div total_weight]
  IN PlaceColumns(Columns(counts, gg - 2), TRUE, nn, gg, seed, <<>>)

\* (g-2) * (beta - alpha * step * x), step = 1.0 / (g-2)
LinearWeight(x, gg, a, b) == b * (gg - 2) - a * x

initializeParticlesLinear(nn, gg, a, b, seed) ==
  LET w == [x \in 0..(gg - 2) |-> LinearWeight(x, gg, a, b)]
      total_weight == Sum(w, gg - 2)
      counts == [x \in 0..(gg - 2) |-> (nn * w[x]) \div total_weight]
  IN PlaceColumns(Columns(counts, gg - 2), TRUE, nn, gg, seed, <<>>)

\* initializeParticlesPatch with the whole remainder put in the first cell
initializeParticlesPatch_first_cell(nn, gg, patch) ==
  LET height == patch.ytop - patch.ybottom
      total_cells == (patch.xright - patch.xleft) * height
      per_cell == nn \div total_cells
      filled == total_cells * per_cell
      cell(pi) == IF pi <= filled THEN (pi - 1) \div per_cell ELSE 0
  IN [pi \in 1..nn |->
        particle_t(2 * (patch.xleft + (cell(pi) \div height)) + REL_X,
                   2 * (patch.ybottom + (cell(pi) % height)) + REL_Y)]

\* the first loop nest places particles_per_cell particles in every cell,
\* x outermost; the second one more per cell, in the same order, while pi < n
initializeParticlesPatch(nn, gg, patch) ==
  LET height == patch.ytop - patch.ybottom
      total_cells == (patch.xright - patch.xleft) * height
      per_cell == nn \div total_cells
      filled == total_cells * per_cell
      cell(pi) == IF pi <= filled THEN (pi - 1) \div per_cell
                  ELSE pi - filled - 1
  IN [pi \in 1..nn |->
        particle_t(2 * (patch.xleft + (cell(pi) \div height)) + REL_X,
                   2 * (patch.ybottom + (cell(pi) % height)) + REL_Y)]

\* inject_particles with the cell index x + 1 in place of x
inject_particles_shifted(timestep, patch, per_cell, nn, arr) ==
  LET width == patch.xright - patch.xleft
      total_cells == width * (patch.ytop - patch.ybottom)
      total_injected_particles == total_cells * per_cell
      new_size == nn + total_injected_particles
      cell(i) == (i - 1) \div per_cell
  IN [n |-> new_size,
      particles |->
        SubSeq(arr, 1, nn)
        \o [i \in 1..total_injected_particles |->
              particle_t(2 * (patch.xleft + (cell(i) % width) + 1) + REL_X,
                         2 * (patch.ybottom + (cell(i) \div width)) + REL_Y)]]

\* the particles appended by the injection loop nest: y outermost, then x,
\* then particles_per_cell per cell
inject_particles(timestep, patch, per_cell, nn, arr) ==
  LET width == patch.xright - patch.xleft
      total_cells == width * (patch.ytop - patch.ybottom)
      total_injected_particles == total_cells * per_cell
      new_size == nn + total_injected_particles
      cell(i) == (i - 1) \div per_cell
  IN [n |-> new_size,
      particles |->
        SubSeq(arr, 1, nn)
        \o [i \in 1..total_injected_particles |->
              particle_t(2 * (patch.xleft + (cell(i) % width)) + REL_X,
                         2 * (patch.ybottom + (cell(i) \div width)) + REL_Y)]]

\* charge, in units of its value at offset (0.5, 0.5); the model is exact on
\* that lattice only
charge(rel_x, rel_y) == CASE rel_x = 1 /\ rel_y = 1 -> 1

\* finish_distribution run from the start of the array instead of the slice
finish_distribution_from_start(timestep, kk, mm, nn, arr, off) ==
  [pi \in 1..Len(arr) |->
     IF pi > off + nn THEN arr[pi]
     ELSE LET x_coord == arr[pi].x
              y_coord == arr[pi].y
              x == trunc(x_coord)
          IN [arr[pi] EXCEPT
                !.v_x = 0, !.v_y = mm \div dt,
                !.q = IF cmod(x, 2) = 0 THEN 2 * kk + 1 ELSE -(2 * kk + 1),
                !.x0 = x_coord, !.y0 = y_coord,
                !.k = kk, !.m = mm, !.initTimestamp = timestep,
                !.nmoves = 0]]

\* finish_distribution(timestep, k, m, n, particles + off)
finish_distribution(timestep, kk, mm, nn, arr, off) ==
  [pi \in 1..Len(arr) |->
     IF pi <= off \/ pi > off + nn THEN arr[pi]
     ELSE LET x_coord == arr[pi].x
              y_coord == arr[pi].y
              rel_x == fmod(x_coord, 2)
              rel_y == fmod(y_coord, 2)
              x == trunc(x_coord)
          IN [x |-> x_coord, y |-> y_coord,
              v_x |-> 0,
              v_y |-> mm \div dt,
              q |-> IF cmod(x, 2) = 0 THEN (2 * kk + 1) * charge(rel_x, rel_y)
                    ELSE -1 * (2 * kk + 1) * charge(rel_x, rel_y),
              x0 |-> x_coord, y0 |-> y_coord,
              k |-> kk, m |-> mm, initTimestamp |-> timestep,
              nmoves |-> 0,
              x_off |-> arr[pi].x_off, y_off |-> arr[pi].y_off]]

\* --------------------------------------------------------- verifyParticle
\* the resolution of x_off and y_off: 1 cell = SubUnits units = 1e8 units
SubUnits == 100 * epsilon_inv

\* fabs(d) > epsilon with >= in place of >
ExceedsEpsilon_or_equal(d, off) ==
  Abs(d * (SubUnits \div 2) + off) >= SubUnits \div epsilon_inv

\* fabs(d) > epsilon for a difference of d half cells plus off units
ExceedsEpsilon(d, off) ==
  Abs(d * (SubUnits \div 2) + off) > SubUnits \div epsilon_inv

\* qg is the value the read of QG(y,x) yields
verifyParticle(p, current_timestep, qg, gg) ==
  LET total_steps == current_timestep - p.initTimestamp
      Lc == gg - 1
      x_T == IF p.q * qg > 0
               THEN p.x0 + 2 * (total_steps * (2 * p.k + 1))
               ELSE p.x0 - 2 * (total_steps * (2 * p.k + 1))
      y_T == p.y0 + 2 * (p.m * total_steps)
      x_periodic == fmod(x_T + 2 * (total_steps * (2 * p.k + 1) * Lc), 2 * Lc)
      y_periodic == fmod(y_T + 2 * (total_steps * Abs(p.m) * Lc), 2 * Lc)
  IN IF ExceedsEpsilon(p.x - x_periodic, p.x_off)
        \/ ExceedsEpsilon(p.y - y_periodic, p.y_off)
       THEN FAILURE
       ELSE SUCCESS

\* the values the read of QG(y,x) in verifyParticle can yield
VerifyReads(p, gg, grid) ==
  QGread(QGindex(floor(p.y0), floor(p.x0), gg), grid)

\* -------------------------------------------------------- remove_particles
\* reads[i] is the value verifyParticle reads from the grid for particles[i]
\* the membership test of the removal loop; boundaries in half cells
inside_x_only(p, patch) ==
  LET left_boundary == 2 * patch.xleft
      right_boundary == 2 * patch.xright
  IN p.x > left_boundary /\ p.x < right_boundary

inside_patch(p, patch) ==
  LET left_boundary == 2 * patch.xleft
      right_boundary == 2 * patch.xright
      top_boundary == 2 * patch.ytop
      bottom_boundary == 2 * patch.ybottom
  IN p.x > left_boundary /\ p.x < right_boundary
     /\ p.y > bottom_boundary /\ p.y < top_boundary

RECURSIVE remove_loop(_, _, _, _, _, _, _)
remove_loop(i, pos, st, timestep, patch, reads, gg) ==
  IF ~(i < st.n) THEN [st EXCEPT !.n = pos]
  ELSE LET p == st.particles[i + 1]
       IN IF inside_patch(p, patch)
            THEN LET r == verifyParticle(p, timestep, reads[i + 1], gg)
                 IN remove_loop(i + 1, pos,
                      [st EXCEPT
                         !.partial_correctness = st.partial_correctness * r,
                         !.verified = Append(st.verified,
                            [particle |-> p, timestep |-> timestep,
                             result |-> r])],
                      timestep, patch, reads, gg)
            ELSE remove_loop(i + 1, pos + 1,
                      [st EXCEPT !.particles[pos + 1] = p],
                      timestep, patch, reads, gg)

\* remove_particles that leaves the survivors in reverse order
remove_particles_reversed(timestep, patch, nn, arr, flag, reads, gg) ==
  LET r == remove_loop(0, 0,
                       [n |-> nn, particles |-> arr,
                        partial_correctness |-> flag, verified |-> <<>>],
                       timestep, patch, reads, gg)
  IN [r EXCEPT !.particles =
        [i \in 1..Len(r.particles) |->
           IF i <= r.n THEN r.particles[r.n + 1 - i] ELSE r.particles[i]]]

\* the removal loop started at i = 1 instead of i = 0
remove_particles_from_one(timestep, patch, nn, arr, flag, reads, gg) ==
  remove_loop(1, 0,
              [n |-> nn, particles |-> arr, partial_correctness |-> flag,
               verified |-> <<>>],
              timestep, patch, reads, gg)

\* returns the new n, the array, the correctness flag and the verifications
remove_particles(timestep, patch, nn, arr, flag, reads, gg) ==
  remove_loop(0, 0,
              [n |-> nn, particles |-> arr, partial_correctness |-> flag,
               verified |-> <<>>],
              timestep, patch, reads, gg)

\* ------------------------------------------------------------ the force
\* The two components of the force between a particle of charge q1 (in units
\* of 1/(2*sqrt 2)) and a grid charge q2 at distance (0.5, 0.5), doubled:
\* r2 = 0.5, f_coulomb = q1*q2/r2, fx = fy = f_coulomb * 0.5 / sqrt(0.5).
\* The model is exact at that distance only.
computeCoulomb(x_dist, y_dist, q1, q2) ==
  CASE x_dist = 1 /\ y_dist = 1 -> <<q1 * q2, q1 * q2>>

\* qg holds the values the reads of QG(y,x), QG(y+1,x), QG(y,x+1) and
\* QG(y+1,x+1) yield
computeTotalForce(p, gg, qg) ==
  LET y == floor(p.y)
      x == floor(p.x)
      rel_x == p.x - 2 * x
      rel_y == p.y - 2 * y
      f1 == computeCoulomb(rel_x, rel_y, p.q, qg[1])
      f2 == computeCoulomb(rel_x, 2 - rel_y, p.q, qg[2])
      f3 == computeCoulomb(2 - rel_x, rel_y, p.q, qg[3])
      f4 == computeCoulomb(2 - rel_x, 2 - rel_y, p.q, qg[4])
  IN <<f1[1] + f2[1] - f3[1] - f4[1], f1[2] - f2[2] + f3[2] - f4[2]>>

\* the indices of the four reads of computeTotalForce
ForceIndices(p, gg) ==
  LET y == floor(p.y)
      x == floor(p.x)
  IN <<QGindex(y, x, gg), QGindex(y + 1, x, gg), QGindex(y, x + 1, gg),
       QGindex(y + 1, x + 1, gg)>>

\* a force that leaves a particle on the half-cell lattice
OnLattice(f) == f[1] % 4 = 0 /\ f[2] % 4 = 0

\* the values the four reads can yield; of the outcomes of a read outside the
\* allocation the model keeps those that leave the particle on the lattice
ForceReads(p, gg, grid) ==
  LET idx == ForceIndices(p, gg)
  IN {qg \in Choices([c \in 1..4 |-> QGread(idx[c], grid)]) :
        OnLattice(computeTotalForce(p, gg, qg))}

\* ax, ay are doubled accelerations
moveParticle(p, ax, ay, Lc) ==
  [p EXCEPT
     !.x = fmod(p.x + 2 * (p.v_x * dt) + (ax * dt * dt) \div 2 + 2 * Lc,
                2 * Lc),
     !.y = fmod(p.y + 2 * (p.v_y * dt) + (ay * dt * dt) \div 2 + 2 * Lc,
                2 * Lc),
     !.v_x = p.v_x + (ax * dt) \div 2,
     !.v_y = p.v_y + (ay * dt) \div 2,
     !.nmoves = p.nmoves + 1]

\* the body of the force loop for one particle
ForceAndMove(p, gg, qg, Lc) ==
  LET f == computeTotalForce(p, gg, qg)
      ax == f[1] * mass_inv
      ay == f[2] * mass_inv
  IN moveParticle(p, ax, ay, Lc)

\* ------------------------------------------------------------- bad_patch
\* a bbox_t pointer is the empty sequence (the null pointer) or <<box>>
NULL == <<>>

bad_patch(patch, patch_contain) ==
  IF patch.xleft >= patch.xright \/ patch.ybottom >= patch.ytop THEN 1
  ELSE IF patch_contain # NULL
          /\ (patch.xleft < patch_contain[1].xleft
              \/ patch.xright > patch_contain[1].xright) THEN 2
  ELSE IF patch_contain # NULL
          /\ (patch.ybottom < patch_contain[1].ybottom
              \/ patch.ytop > patch_contain[1].ytop) THEN 3
  ELSE 0

grid_patch == bbox_t(0, g, 0, g)

\* ------------------------------------------------------------------- Init
Init ==
  /\ pc = "args"
  /\ exit_status = -1
  /\ error = "none"
  /\ T = 0 /\ L = 0 /\ g = 0 /\ n = 0 /\ n_old = 0 /\ k = 0 /\ m = 0
  /\ particle_mode = UNDEFINED
  /\ init_patch = NoPatch
  /\ rho = <<0, 1>> /\ alpha = 0 /\ beta = 0
  /\ injection_mode = 0 /\ removal_mode = 0
  /\ injection_timestep = 0 /\ removal_timestep = 0
  /\ particles_per_cell = 0
  /\ injection_patch = NoPatch /\ removal_patch = NoPatch
  /\ particle_steps = 0
  /\ partial_correctness = 1
  /\ correct_simulation = 1
  /\ Qgrid = <<>>
  /\ particles = <<>>
  /\ t = 0
  /\ LCG_seed = LCG_seed0
  /\ verifications = <<>>
  /\ injections = <<>>
  /\ removals = <<>>

\* exit(status): the process ends; err names the configuration error
exit(status, err) ==
  /\ pc' = "exited"
  /\ exit_status' = status
  /\ error' = err

\* ------------------------------------------- main: the five scalar arguments
\* rest is argc - 1, the number of arguments after the program name
ParseScalars ==
  /\ pc = "args"
  /\ \E rest \in 4..5, Tin \in 0..MaxT, Lin \in 0..MaxL, nin \in 0..MaxN,
        kin \in KValues, min \in MValues :
       IF rest + 1 < 6
         THEN exit(SUCCESS, "usage")
              /\ UNCHANGED <<scalarVars>>
       ELSE IF Tin < 1
         THEN exit(FAILURE, "T")
              /\ UNCHANGED <<scalarVars>>
       ELSE IF Lin < 1 \/ Lin % 2 # 0
         THEN exit(FAILURE, "L")
              /\ UNCHANGED <<scalarVars>>
       ELSE IF nin < 1
         THEN exit(FAILURE, "n")
              /\ UNCHANGED <<scalarVars>>
       ELSE IF kin < 0
         THEN exit(FAILURE, "k")
              /\ UNCHANGED <<scalarVars>>
       ELSE /\ T' = Tin /\ L' = Lin /\ g' = Lin + 1 /\ n' = nin
            /\ particle_steps' = nin * Tin
            /\ k' = kin /\ m' = min
            /\ pc' = "init_mode"
            /\ UNCHANGED <<exit_status, error>>
  /\ UNCHANGED <<initVars, changeVars, runVars, LCG_seed>>

\* ---------------------------------- main: the initialization mode arguments
\* rest is argc - 6, the number of arguments from the mode name on; the mode
\* name is argv[6], a null pointer when rest = 0, and strcmp reads through it
ParseInitMode ==
  /\ pc = "init_mode"
  /\ \E rest \in 0..5, init_mode \in InitModes, r \in RhoValues,
        ab \in LinearValues, patch \in TestPatches(L) :
       IF rest = 0
         THEN exit(CRASHED, "usage")
              /\ UNCHANGED <<initVars>>
       ELSE IF init_mode = "GEOMETRIC"
         THEN IF rest - 1 < 1
                THEN exit(FAILURE, "init arguments")
                     /\ UNCHANGED <<initVars>>
                ELSE /\ particle_mode' = GEOMETRIC
                     /\ rho' = r
                     /\ pc' = "population_change"
                     /\ UNCHANGED <<exit_status, error, init_patch, alpha,
                                    beta>>
       ELSE IF init_mode = "SINUSOIDAL"
         THEN /\ particle_mode' = SINUSOIDAL
              /\ pc' = "population_change"
              /\ UNCHANGED <<exit_status, error, init_patch, rho, alpha,
                             beta>>
       ELSE IF init_mode = "LINEAR"
         THEN IF rest - 1 < 2
                THEN exit(EXIT_FAILURE, "init arguments")
                     /\ UNCHANGED <<initVars>>
                ELSE /\ particle_mode' = LINEAR
                     /\ alpha' = ab[1] /\ beta' = ab[2]
                     /\ pc' = "population_change"
                     /\ UNCHANGED <<exit_status, error, init_patch, rho>>
       ELSE IF init_mode = "PATCH"
         THEN IF rest - 1 < 4
                THEN exit(FAILURE, "init arguments")
                     /\ UNCHANGED <<initVars>>
              ELSE IF bad_patch(patch, NULL) # 0
                THEN exit(FAILURE, "init patch")
                     /\ UNCHANGED <<initVars>>
                ELSE /\ particle_mode' = PATCH
                     /\ init_patch' = patch
                     /\ pc' = "population_change"
                     /\ UNCHANGED <<exit_status, error, rho, alpha, beta>>
       ELSE \* the switch on particle_mode = UNDEFINED
            exit(FAILURE, "init mode")
            /\ UNCHANGED <<initVars>>
  /\ UNCHANGED <<scalarVars, changeVars, runVars, LCG_seed>>

\* ----------------------------- main: the population change mode arguments
\* rest is argc - args_used, the number of arguments not yet consumed
ChangeModes == {"INJECTION", "REMOVAL"}

ParsePopulationChange ==
  /\ pc = "population_change"
  /\ \E rest \in {0, 5, 6, 7}, ir_mode \in ChangeModes,
        ppc \in -1..MaxPPC, step \in -1..(MaxT + 1),
        patch \in TestPatches(L) :
       IF ~(rest > 0)
         THEN /\ pc' = "initialize"
              /\ UNCHANGED <<exit_status, error, changeVars, particle_steps>>
       ELSE IF ir_mode = "INJECTION"
         THEN IF rest - 1 < 6
                THEN exit(FAILURE, "change arguments")
                     /\ UNCHANGED <<changeVars, particle_steps>>
              ELSE IF ppc < 0
                THEN exit(FAILURE, "particles per cell")
                     /\ UNCHANGED <<changeVars, particle_steps>>
              ELSE IF step < 0
                THEN exit(FAILURE, "injection step")
                     /\ UNCHANGED <<changeVars, particle_steps>>
              ELSE IF bad_patch(patch, <<grid_patch>>) # 0
                THEN exit(FAILURE, "injection patch")
                     /\ UNCHANGED <<changeVars, particle_steps>>
                ELSE /\ injection_mode' = 1
                     /\ particles_per_cell' = ppc
                     /\ injection_timestep' = step
                     /\ injection_patch' = patch
                     /\ particle_steps' = particle_steps
                          + ((patch.xright - patch.xleft)
                             * (patch.ytop - patch.ybottom) * ppc)
                            * (T + 1 - step)
                     /\ pc' = "initialize"
                     /\ UNCHANGED <<exit_status, error, removal_mode,
                                    removal_timestep, removal_patch>>
       ELSE \* REMOVAL: the five parameters are read without a count check;
            \* the first one missing is argv[argc], a null pointer
            IF rest - 1 < 5
              THEN exit(CRASHED, "change arguments")
                   /\ UNCHANGED <<changeVars, particle_steps>>
            ELSE IF bad_patch(patch, <<grid_patch>>) # 0
              THEN exit(FAILURE, "removal patch")
                   /\ UNCHANGED <<changeVars, particle_steps>>
              ELSE /\ removal_mode' = 1
                   /\ removal_timestep' = step
                   /\ removal_patch' = patch
                   /\ pc' = "initialize"
                   /\ UNCHANGED <<exit_status, error, injection_mode,
                                  injection_timestep, particles_per_cell,
                                  injection_patch, particle_steps>>
  /\ UNCHANGED <<T, L, g, n, k, m, initVars, runVars, LCG_seed>>

\* --------------------------------- main: the grid and the initial particles
\* malloc returns a null pointer (grid_ok, particles_ok = FALSE) or memory
Initialize ==
  /\ pc = "initialize"
  /\ \E grid_ok \in BOOLEAN, particles_ok \in BOOLEAN :
       IF ~grid_ok \/ ~particles_ok
         THEN exit(EXIT_FAILURE, "allocation")
              /\ UNCHANGED <<Qgrid, particles, LCG_seed>>
         ELSE LET placed ==
                    CASE particle_mode = GEOMETRIC ->
                           initializeParticlesGeometric(n, g, rho, LCG_seed)
                      [] particle_mode = SINUSOIDAL ->
                           initializeParticlesSinusoidal(n, g, LCG_seed)
                      [] particle_mode = LINEAR ->
                           initializeParticlesLinear(n, g, alpha, beta,
                                                     LCG_seed)
                      [] particle_mode = PATCH ->
                           [particles |->
                              initializeParticlesPatch(n, g, init_patch),
                            seed |-> LCG_seed]
              IN /\ Qgrid' = initializeGrid(g)
                 /\ particles' =
                      finish_distribution(0, k, m, n, placed.particles, 0)
                 /\ LCG_seed' = placed.seed
                 /\ pc' = "injection"
                 /\ UNCHANGED <<exit_status, error>>
  /\ t' = 0
  /\ UNCHANGED <<scalarVars, initVars, changeVars, n_old,
                 partial_correctness, correct_simulation, verifications,
                 injections, removals>>

\* ------------------------------------------- main: the time-step loop body
\* the injection test with >= in place of ==
injection_due_from == injection_mode = 1 /\ t >= injection_timestep

injection_due == injection_mode = 1 /\ t = injection_timestep

removal_due == removal_mode = 1 /\ t = removal_timestep

\* inject_particles copies into the new array without testing it: when malloc
\* returns a null pointer (array_ok = FALSE) the process is killed
InjectionCheck ==
  /\ pc = "injection"
  /\ IF injection_due
       THEN \E array_ok \in BOOLEAN :
              IF ~array_ok
                THEN exit(CRASHED, "allocation")
                     /\ UNCHANGED <<n_old, n, particles, injections>>
                ELSE LET inj == inject_particles(t, injection_patch,
                                                 particles_per_cell, n,
                                                 particles)
                     IN /\ n_old' = n
                        /\ n' = inj.n
                        /\ particles' =
                             finish_distribution(t, 0, 0, inj.n - n,
                                                 inj.particles, n)
                        /\ injections' = Append(injections, t)
                        /\ pc' = "removal"
                        /\ UNCHANGED <<exit_status, error>>
       ELSE /\ pc' = "removal"
            /\ UNCHANGED <<n_old, n, particles, injections, exit_status,
                           error>>
  /\ UNCHANGED <<T, L, g, k, m, particle_steps, initVars,
                 changeVars, partial_correctness, correct_simulation, Qgrid,
                 t, verifications, removals, LCG_seed>>

RemovalCheck ==
  /\ pc = "removal"
  /\ IF removal_due
       THEN \E reads \in Choices([i \in 1..n |->
                                    VerifyReads(particles[i], g, Qgrid)]) :
              LET rem == remove_particles(t, removal_patch, n, particles,
                                          partial_correctness, reads, g)
              IN /\ n_old' = n
                 /\ n' = rem.n
                 /\ particles' = rem.particles
                 /\ partial_correctness' = rem.partial_correctness
                 /\ particle_steps' = particle_steps
                      - (n - rem.n) * (T + 1 - removal_timestep)
                 /\ verifications' = verifications \o rem.verified
                 /\ removals' = Append(removals, t)
       ELSE UNCHANGED <<n_old, n, particles, partial_correctness,
                        particle_steps, verifications, removals>>
  /\ pc' = "forces"
  /\ UNCHANGED <<exit_status, error, T, L, g, k, m, initVars, changeVars,
                 correct_simulation, Qgrid, t, injections, LCG_seed>>

ForcePass ==
  /\ pc = "forces"
  /\ \E qgs \in Choices([i \in 1..n |-> ForceReads(particles[i], g, Qgrid)]) :
       particles' = [i \in 1..Len(particles) |->
                       IF i <= n
                         THEN ForceAndMove(particles[i], g, qgs[i], L)
                         ELSE particles[i]]
  /\ t' = t + 1
  /\ pc' = IF t + 1 <= T THEN "injection" ELSE "verification"
  /\ UNCHANGED <<exit_status, error, scalarVars, initVars, changeVars, n_old,
                 partial_correctness, correct_simulation, Qgrid,
                 verifications, injections, removals, LCG_seed>>

\* ------------------------------------------------- main: the verification
RECURSIVE verify_loop(_, _, _)
verify_loop(i, reads, st) ==
  IF ~(i < n) THEN st
  ELSE LET r == verifyParticle(particles[i + 1], T + 1, reads[i + 1], g)
       IN verify_loop(i + 1, reads,
            [correct_simulation |-> st.correct_simulation * r,
             verified |-> Append(st.verified,
                            [particle |-> particles[i + 1],
                             timestep |-> T + 1, result |-> r])])

\* the flag the verification loop starts from, ignoring the removals
initial_correctness_one == SUCCESS

\* correct_simulation = partial_correctness
initial_correctness == partial_correctness

Verification ==
  /\ pc = "verification"
  /\ \E reads \in Choices([i \in 1..n |->
                             VerifyReads(particles[i], g, Qgrid)]) :
       LET res == verify_loop(0, reads,
                    [correct_simulation |-> initial_correctness,
                     verified |-> <<>>])
       IN /\ correct_simulation' = res.correct_simulation
          /\ verifications' = verifications \o res.verified
  /\ pc' = "done"
  /\ exit_status' = 0
  /\ UNCHANGED <<error, scalarVars, initVars, changeVars, n_old,
                 partial_correctness, Qgrid, particles, t, injections,
                 removals, LCG_seed>>

Next ==
  \/ ParseScalars
  \/ ParseInitMode
  \/ ParsePopulationChange
  \/ Initialize
  \/ InjectionCheck
  \/ RemovalCheck
  \/ ForcePass
  \/ Verification

\* ====================================================================
\* Properties
\* ====================================================================
\* main is in or past the time-step loop
Simulating == pc \in {"injection", "removal", "forces", "verification", "done"}

\* particles[i] was placed by the initializer (not by an injection)
Seeded(i) == injections = <<>> \/ i <= n_old

\* particles[i] was placed by the injection
Injected(i) == injections # <<>> /\ i > n_old

StrictlyInside(p, patch) ==
  /\ 2 * patch.xleft < p.x /\ p.x < 2 * patch.xright
  /\ 2 * patch.ybottom < p.y /\ p.y < 2 * patch.ytop

AllSucceeded(v) == \A j \in 1..Len(v) : v[j].result = SUCCESS

\* C1: every particle seeded at step 0 has, after j force+move passes,
\* x = (x0 + j*(2k+1)) mod L and y = (y0 + j*m) mod L, for every accepted
\* configuration.
C1_SeededParticlesDrift ==
  Simulating =>
    \A i \in 1..n :
      Seeded(i) =>
        LET p == particles[i]
        IN /\ p.x = (p.x0 + 2 * (p.nmoves * (2 * k + 1))) % (2 * L)
           /\ p.y = (p.y0 + 2 * (p.nmoves * m)) % (2 * L)

\* C2: every verifyParticle call the program makes (at the removal step for
\* removed particles, at T+1 for survivors) returns SUCCESS.
C2_EveryVerificationSucceeds == AllSucceeded(verifications)

\* C3: inject_particles increases n by exactly
\* (xright-xleft)*(ytop-ybottom)*particles_per_cell and every injected
\* particle lies in the injection patch.
C3_InjectionGrowsByPatch ==
  (pc = "removal" /\ injection_mode = 1 /\ t = injection_timestep) =>
    /\ n = n_old
           + (injection_patch.xright - injection_patch.xleft)
             * (injection_patch.ytop - injection_patch.ybottom)
             * particles_per_cell
    /\ \A i \in (n_old + 1)..n :
         /\ 2 * injection_patch.xleft <= particles[i].x
         /\ particles[i].x < 2 * injection_patch.xright
         /\ 2 * injection_patch.ybottom <= particles[i].y
         /\ particles[i].y < 2 * injection_patch.ytop

\* C3 witness: an injection has just added particles to a non-empty array
C3_Witness ==
  /\ pc = "removal" /\ injection_mode = 1 /\ t = injection_timestep
  /\ n_old > 0 /\ n > n_old + 1

\* C4: remove_particles drops exactly the particles strictly inside the
\* patch: n_after + removed = n_before, no survivor is strictly inside, and
\* the result of verifying each removed particle at the removal step is
\* multiplied into the correctness flag.
C4_RemovalDropsInside ==
  [][(pc = "removal" /\ removal_mode = 1 /\ t = removal_timestep) =>
       LET In(p) == StrictlyInside(p, removal_patch)
           Out(p) == ~StrictlyInside(p, removal_patch)
           live == SubSeq(particles, 1, n)
           dropped == SelectSeq(live, In)
           kept == SelectSeq(live, Out)
           logged == SubSeq(verifications', Len(verifications) + 1,
                            Len(verifications'))
       IN /\ n_old' = n
          /\ n' + Len(dropped) = n_old'
          /\ SubSeq(particles', 1, n') = kept
          /\ \A i \in 1..n' : ~StrictlyInside(particles'[i], removal_patch)
          /\ Len(logged) = Len(dropped)
          /\ \A j \in 1..Len(logged) :
               /\ logged[j].particle = dropped[j]
               /\ logged[j].timestep = removal_timestep
          /\ partial_correctness' =
               IF AllSucceeded(logged) THEN partial_correctness ELSE 0
    ]_vars

\* C4 witness: a removal has dropped some particles and kept others
C4_Witness ==
  /\ pc = "forces" /\ removals = <<t>>
  /\ n > 0 /\ n < n_old /\ Len(verifications) = n_old - n

\* C5: applying remove_particles again with the same patch right after a
\* removal changes neither n, nor the particles, nor the correctness flag.
C5_RemovalIdempotent ==
  (pc = "forces" /\ removal_mode = 1 /\ t = removal_timestep) =>
    \A reads \in Choices([i \in 1..n |->
                            VerifyReads(particles[i], g, Qgrid)]) :
      LET again == remove_particles(t, removal_patch, n, particles,
                                    partial_correctness, reads, g)
      IN /\ again.n = n
         /\ again.particles = particles
         /\ again.partial_correctness = partial_correctness

\* C5 witness: a removal that dropped and kept particles has just run
C5_Witness ==
  /\ pc = "forces" /\ removal_mode = 1 /\ t = removal_timestep
  /\ removals # <<>> /\ n < n_old /\ n > 0

\* C6: every configuration error ends the process with a non-zero status.
C6_ConfigErrorsExitNonZero ==
  (pc = "exited" /\ error # "none") => exit_status # 0

\* C7: injection and removal each run at most once, in the step equal to the
\* configured one and before its force pass, so that every live particle has
\* been moved once per step since it was created; a configured step beyond T
\* never changes the population.
C7_PopulationChangeOnce ==
  Simulating =>
    /\ (injections # <<>>) <=>
         /\ injection_mode = 1
         /\ \/ t > injection_timestep
            \/ t = injection_timestep /\ pc \in {"removal", "forces"}
    /\ (removals # <<>>) <=>
         /\ removal_mode = 1 /\ removal_timestep >= 0
         /\ \/ t > removal_timestep
            \/ t = removal_timestep /\ pc = "forces"
    /\ injections \in {<<>>, <<injection_timestep>>}
    /\ removals \in {<<>>, <<removal_timestep>>}
    /\ \A i \in 1..n : particles[i].nmoves = t - particles[i].initTimestamp
    /\ (injections = <<>> /\ removals = <<>>) =>
         /\ n = Len(particles)
         /\ \A i \in 1..n : particles[i].initTimestamp = 0

\* C7 witness: the run is over and particles injected after step 0 are live
C7_Witness ==
  /\ pc = "done" /\ injections # <<>> /\ injection_timestep > 0
  /\ n > n_old /\ n_old > 0

\* what C8 says of the state after the verification loop
C8_Done ==
  LET removed == Len(verifications) - n
  IN /\ removed >= 0
     /\ \A j \in 1..removed : verifications[j].timestep # T + 1
     /\ \A i \in 1..n :
          /\ verifications[removed + i].particle = particles[i]
          /\ verifications[removed + i].timestep = T + 1
     /\ correct_simulation = 1 <=> AllSucceeded(verifications)
     /\ correct_simulation \in {0, 1}

\* C8: after the loop every surviving particle is verified exactly once, at
\* step T+1, and not moved; the run validates iff every verification of the
\* run succeeded; the correctness flag never returns from 0 to 1.
C8_FinalVerification ==
  [][/\ partial_correctness = 0 => partial_correctness' = 0
     /\ pc = "verification" => (particles' = particles /\ n' = n)
     /\ pc' = "done" => C8_Done'
    ]_vars

\* C8 witness: a run with removal-time and final verifications has ended
C8_Witness ==
  /\ pc = "done" /\ n > 0 /\ Len(verifications) > n
  /\ correct_simulation = 1

\* a patch that is non-empty and contained in the grid domain [0,g)^2
BoundingPatchInvariant(patch) ==
  /\ patch.xleft < patch.xright /\ patch.ybottom < patch.ytop
  /\ 0 <= patch.xleft /\ patch.xright <= g
  /\ 0 <= patch.ybottom /\ patch.ytop <= g

\* C9: the simulation starts only with patches (init, injection, removal)
\* that are non-empty and contained in the grid domain [0,g)^2.
C9_AcceptedPatchesInGrid ==
  (Simulating \/ pc = "initialize") =>
    /\ particle_mode = PATCH => BoundingPatchInvariant(init_patch)
    /\ injection_mode = 1 => BoundingPatchInvariant(injection_patch)
    /\ removal_mode = 1 => BoundingPatchInvariant(removal_patch)

\* C10: every injected particle has k = 0, m = 0 and initTimestamp equal to
\* the injection step, starts at rest, and drifts exactly 1 cell per step
\* horizontally and 0 cells vertically from the injection step on.
C10_InjectedParticlesDrift ==
  Simulating =>
    \A i \in 1..n :
      Injected(i) =>
        LET p == particles[i]
        IN /\ p.k = 0 /\ p.m = 0 /\ p.initTimestamp = injection_timestep
           /\ p.nmoves = 0 => (p.v_x = 0 /\ p.v_y = 0)
           /\ p.x = (p.x0 + 2 * p.nmoves) % (2 * L)
           /\ p.y = p.y0 % (2 * L)

\* --------------------------------------------------------------------
\* initializeParticlesPatch on its own: n >= 1 and a non-empty patch, as main
\* passes them (pic.c:544-548, 594-601)
PatchInputs ==
  { bbox_t(xl, xl + w, yb, yb + h) :
      xl \in 0..1, w \in 1..MaxPatchSide, yb \in 0..1, h \in 1..MaxPatchSide }

PatchInit ==
  /\ pc = "patch_args"
  /\ exit_status = -1 /\ error = "none"
  /\ T = 1 /\ L = 2 * MaxPatchSide /\ g = 2 * MaxPatchSide + 1
  /\ n \in 1..MaxPatchN
  /\ n_old = 0 /\ k = 0 /\ m = 0
  /\ particle_mode = PATCH
  /\ init_patch \in PatchInputs
  /\ rho = <<0, 1>> /\ alpha = 0 /\ beta = 0
  /\ injection_mode = 0 /\ removal_mode = 0
  /\ injection_timestep = 0 /\ removal_timestep = 0
  /\ particles_per_cell = 0
  /\ injection_patch = NoPatch /\ removal_patch = NoPatch
  /\ particle_steps = n * T
  /\ partial_correctness = 1 /\ correct_simulation = 1
  /\ Qgrid = <<>> /\ particles = <<>>
  /\ t = 0
  /\ LCG_seed = LCG_seed0
  /\ verifications = <<>>
  /\ injections = <<>>
  /\ removals = <<>>

PatchApply ==
  /\ pc = "patch_args"
  /\ bad_patch(init_patch, NULL) = 0
  /\ particles' = initializeParticlesPatch(n, g, init_patch)
  /\ pc' = "patch_done"
  /\ UNCHANGED <<exit_status, error, scalarVars, initVars, changeVars, n_old,
                 partial_correctness, correct_simulation, Qgrid, t,
                 verifications, injections, removals, LCG_seed>>

PatchSpec == PatchInit /\ [][PatchApply]_vars

\* number of particles of arr at the centre of cell (cx, cy)
InCell(arr, cx, cy) ==
  Cardinality({i \in 1..Len(arr) :
                 arr[i].x = 2 * cx + 1 /\ arr[i].y = 2 * cy + 1})

CellsInPatch(patch) ==
  (patch.xright - patch.xleft) * (patch.ytop - patch.ybottom)

\* C11: PATCH initialisation places exactly n particles, each at the centre
\* of a cell of the init patch; every cell of the patch receives
\* floor(n / cells) particles plus at most one remainder particle, and exactly
\* n / cells when n is divisible by the number of cells.
C11_PatchPlacement ==
  pc = "patch_done" =>
    LET cells == CellsInPatch(init_patch)
        share == n \div cells
    IN /\ Len(particles) = n
       /\ \A i \in 1..n :
            \E cx \in init_patch.xleft..(init_patch.xright - 1),
               cy \in init_patch.ybottom..(init_patch.ytop - 1) :
              particles[i].x = 2 * cx + 1 /\ particles[i].y = 2 * cy + 1
       /\ \A cx \in init_patch.xleft..(init_patch.xright - 1),
             cy \in init_patch.ybottom..(init_patch.ytop - 1) :
            /\ InCell(particles, cx, cy) \in {share, share + 1}
            /\ n % cells = 0 => InCell(particles, cx, cy) = share

\* C11 witness: several cells, at least one particle each and a remainder
C11_Witness ==
  /\ pc = "patch_done"
  /\ CellsInPatch(init_patch) > 1
  /\ n > CellsInPatch(init_patch)
  /\ n % CellsInPatch(init_patch) > 1

\* --------------------------------------------------------------------
\* verifyParticle on its own: a particle created at step 0 in a cell of a
\* grid of L = 2 cells, verified at step t at a position that differs from a
\* lattice point by a small offset
VerifyOffsets ==
  LET tol == SubUnits \div epsilon_inv
  IN {-(tol + 1), -tol, -(tol \div 2), -1, 0, 2, tol \div 2, tol, tol + 1}

VerifyInputs ==
  { [finish_distribution(0, kk, mm, 1, <<particle_t(cx, cy)>>, 0)[1]
       EXCEPT !.x = px, !.y = py, !.x_off = xo, !.y_off = yo,
              !.q = qs * @] :
      cx \in {1, 3}, cy \in {1, 3}, kk \in {0, 1}, mm \in {-1, 0, 1},
      px \in {1, 3}, py \in {1, 3}, qs \in {1, -1},
      xo \in VerifyOffsets, yo \in VerifyOffsets }

VerifyInit ==
  /\ pc = "verify_args"
  /\ exit_status = -1 /\ error = "none"
  /\ T = MaxVerifyStep /\ L = 2 /\ g = 3
  /\ n = 1 /\ n_old = 0
  /\ particles \in {<<p>> : p \in VerifyInputs}
  /\ k = particles[1].k /\ m = particles[1].m
  /\ particle_mode = UNDEFINED
  /\ init_patch = NoPatch
  /\ rho = <<0, 1>> /\ alpha = 0 /\ beta = 0
  /\ injection_mode = 0 /\ removal_mode = 0
  /\ injection_timestep = 0 /\ removal_timestep = 0
  /\ particles_per_cell = 0
  /\ injection_patch = NoPatch /\ removal_patch = NoPatch
  /\ particle_steps = n * T
  /\ partial_correctness = 1 /\ correct_simulation = 1
  /\ Qgrid = initializeGrid(g)
  /\ t \in 0..MaxVerifyStep
  /\ LCG_seed = LCG_seed0
  /\ verifications = <<>>
  /\ injections = <<>>
  /\ removals = <<>>

VerifyApply ==
  /\ pc = "verify_args"
  /\ \E qg \in VerifyReads(particles[1], g, Qgrid) :
       verifications' =
         <<[particle |-> particles[1], timestep |-> t,
            result |-> verifyParticle(particles[1], t, qg, g)]>>
  /\ pc' = "verify_done"
  /\ UNCHANGED <<exit_status, error, scalarVars, initVars, changeVars, n_old,
                 partial_correctness, correct_simulation, Qgrid, particles,
                 t, injections, removals, LCG_seed>>

VerifySpec == VerifyInit /\ [][VerifyApply]_vars

\* the analytic targets of particle p after elapsed steps, wrapped modulo L,
\* in half cells; sgn is the sign of q * charge_at(floor(x0), floor(y0))
TargetX(p, elapsed, sgn) ==
  (p.x0 + 2 * (sgn * elapsed * (2 * p.k + 1))) % (2 * L)

TargetY(p, elapsed) == (p.y0 + 2 * (p.m * elapsed)) % (2 * L)

\* |x - x_periodic| and |y - y_periodic| of the verified particle, in units
\* of 1 / SubUnits cell
VerifiedDeviations ==
  LET p == verifications[1].particle
      elapsed == verifications[1].timestep - p.initTimestamp
      sgn == IF p.q * Qgrid[QGindex(p.y0 \div 2, p.x0 \div 2, g)] > 0
               THEN 1 ELSE -1
  IN <<Abs((p.x - TargetX(p, elapsed, sgn)) * (SubUnits \div 2) + p.x_off),
       Abs((p.y - TargetY(p, elapsed)) * (SubUnits \div 2) + p.y_off)>>

charge_at(x, y) == Qgrid[QGindex(y, x, g)]

\* C13: after initializeGrid(g) the charge stored at (x,y), for all x, y in
\* [0,g), is +Q iff x is even and -Q otherwise, and no later operation of the
\* run writes to the grid.
C13_GridParityReadOnly ==
  [][/\ Simulating' =>
          \A x \in 0..(g' - 1), y \in 0..(g' - 1) :
            charge_at(x, y)' = IF x % 2 = 0 THEN Q ELSE -Q
     /\ Simulating => Qgrid' = Qgrid
    ]_vars

\* C13 witness: a run with injection, force passes and verification is over
C13_Witness ==
  /\ pc = "done" /\ injections # <<>> /\ n > 0
  /\ charge_at(0, 1) = Q /\ charge_at(1, 0) = -Q

\* position inside the periodic domain [0,L) x [0,L) (in half cells)
InDomain(p) == 0 <= p.x /\ p.x < 2 * L /\ 0 <= p.y /\ p.y < 2 * L

\* C14: for every particle with position in [0,L) and every displacement an
\* accepted configuration can produce, moveParticle yields a position with
\* 0 <= x' < L and 0 <= y' < L: the wraparound is never negative.
C14_WrapStaysInDomain ==
  [][pc = "forces" =>
       \A i \in 1..n :
         InDomain(particles[i]) => InDomain(particles'[i])
    ]_vars

\* --------------------------------------------------------------------
\* remove_particles on its own: the removal step of main applied at step 0
\* to an array of up to MaxRemoveN particles placed in the cells of a grid of
\* L = 2 cells, in any order, with a patch main accepts
RemoveArrays ==
  LET cells == {<<cx, cy>> : cx \in {1, 3}, cy \in {1, 3}}
  IN UNION { { finish_distribution(0, 0, 0, len,
                 [i \in 1..len |-> particle_t(c[i][1], c[i][2])], 0) :
               c \in [1..len -> cells] } : len \in 1..MaxRemoveN }

RemoveInit ==
  /\ pc = "removal"
  /\ exit_status = -1 /\ error = "none"
  /\ T = 1 /\ L = 2 /\ g = 3
  /\ particles \in RemoveArrays
  /\ n = Len(particles) /\ n_old = 0
  /\ k = 0 /\ m = 0
  /\ particle_mode = UNDEFINED
  /\ init_patch = NoPatch
  /\ rho = <<0, 1>> /\ alpha = 0 /\ beta = 0
  /\ injection_mode = 0 /\ removal_mode = 1
  /\ injection_timestep = 0 /\ removal_timestep = 0
  /\ particles_per_cell = 0
  /\ injection_patch = NoPatch
  /\ removal_patch \in {patch \in TestPatches(L) :
                          bad_patch(patch, <<grid_patch>>) = 0}
  /\ particle_steps = n * T
  /\ partial_correctness = 1 /\ correct_simulation = 1
  /\ Qgrid = initializeGrid(g)
  /\ t = 0
  /\ LCG_seed = LCG_seed0
  /\ verifications = <<>>
  /\ injections = <<>>
  /\ removals = <<>>

RemoveSpec == RemoveInit /\ [][RemovalCheck]_vars

\* C15: remove_particles compacts the survivors in place into the prefix
\* [0, n_after) of the particle array, in their original relative order and
\* with every field unchanged: the prefix is the original sequence filtered by
\* 'not strictly inside the patch'; the array keeps its length and the slots
\* past the prefix keep what they held.
C15_CompactionKeepsOrder ==
  [][(pc = "removal" /\ removal_mode = 1 /\ t = removal_timestep) =>
       LET Out(p) == ~StrictlyInside(p, removal_patch)
           survivors == SelectSeq(SubSeq(particles, 1, n), Out)
       IN /\ Len(particles') = Len(particles)
          /\ n' = Len(survivors)
          /\ \A i \in 1..Len(particles) :
               particles'[i] = IF i <= n' THEN survivors[i] ELSE particles[i]
    ]_vars

\* C15 witness: a removal dropped the first particle of the array and kept
\* two different ones that stood behind it
C15_Witness ==
  /\ pc = "forces" /\ removals = <<t>>
  /\ n = 2 /\ n_old = 3
  /\ particles[1] # particles[2]
  /\ Len(verifications) = 1
  /\ verifications[1].particle.x < particles[1].x

\* the charge and the provenance fields of a particle
Provenance(p) == <<p.q, p.x0, p.y0, p.k, p.m, p.initTimestamp>>

\* C16: once a particle exists its charge q and its provenance fields (x0,
\* y0, k, m, initTimestamp) never change: the force pass changes only x, y,
\* v_x and v_y; injection copies the existing particles unchanged and finishes
\* only the added slice; removal copies the retained particles unchanged.
C16_ProvenanceImmutable ==
  [][/\ pc = "forces" =>
          /\ n' = n
          /\ \A i \in 1..n :
               Provenance(particles'[i]) = Provenance(particles[i])
     /\ pc = "injection" =>
          /\ n' >= n
          /\ \A i \in 1..n : particles'[i] = particles[i]
     /\ pc = "removal" =>
          \A j \in 1..n' : \E i \in j..n : particles'[j] = particles[i]
     /\ pc = "verification" => (n' = n /\ particles' = particles)
    ]_vars

\* C16 witness: a particle created at step 0 has been moved, has lived
\* through a later injection and has reached the end of the run
C16_Witness ==
  /\ pc = "done" /\ injections # <<>> /\ injection_timestep > 0
  /\ n > n_old /\ n_old > 0
  /\ particles[1].initTimestamp = 0
  /\ particles[1].x # particles[1].x0
  /\ particles[n].initTimestamp = injection_timestep

\* coordinates (x, y) name a point of the grid [0,g) x [0,g)
InGrid(x, y) == 0 <= x /\ x < g /\ 0 <= y /\ y < g

\* C17: whenever a force is computed, the four grid lookups of
\* computeTotalForce, at (x,y), (x,y+1), (x+1,y), (x+1,y+1) with
\* x = floor(p.x), y = floor(p.y), use coordinates inside [0,g) x [0,g), and so
\* does the lookup of verifyParticle at (floor(x0), floor(y0)): every live
\* particle is in [0,L) x [0,L), also right after PATCH initialisation or
\* injection.
C17_LookupsInGrid ==
  /\ pc = "forces" =>
       \A i \in 1..n :
         LET x == floor(particles[i].x)
             y == floor(particles[i].y)
         IN /\ InGrid(x, y) /\ InGrid(x, y + 1)
            /\ InGrid(x + 1, y) /\ InGrid(x + 1, y + 1)
            /\ InDomain(particles[i])
  /\ pc = "verification" =>
       \A i \in 1..n :
         InGrid(floor(particles[i].x0), floor(particles[i].y0))

\* the moveParticle calls made on particle p in the timed steps t = 1..T:
\* all its moves but the one of step 0
TimedMoves(p) ==
  IF p.initTimestamp = 0 /\ p.nmoves > 0 THEN p.nmoves - 1 ELSE p.nmoves

\* the timed moves of the first len particles of arr
RECURSIVE TimedMovesOf(_, _)
TimedMovesOf(arr, len) ==
  IF len = 0 THEN 0
  ELSE TimedMoves(arr[len]) + TimedMovesOf(arr, len - 1)

\* the particles the removal dropped, as they were when it verified them
RemovedParticles ==
  [j \in 1..(Len(verifications) - n) |-> verifications[j].particle]

\* C18: at the end of the run particle_steps equals the number of
\* moveParticle calls performed in the timed steps t = 1..T, for every
\* injection or removal step the program accepts.
C18_ParticleStepsCountMoves ==
  pc = "done" =>
    particle_steps = TimedMovesOf(particles, n)
                     + TimedMovesOf(RemovedParticles, Len(RemovedParticles))

\* C19: for every particle the horizontal velocity is 0 after an even number
\* of moves since creation and 2*(2k+1) after an odd number, the vertical
\* velocity stays m/dt, and q * charge_at(floor(x0), floor(y0)) is positive,
\* so that verifyParticle always takes the positive drift direction.
C19_VelocityAlternates ==
  Simulating =>
    \A i \in 1..n :
      LET p == particles[i]
      IN /\ p.nmoves % 2 = 0 => p.v_x = 0
         /\ p.nmoves % 2 = 1 => p.v_x = 2 * (2 * p.k + 1)
         /\ p.v_y = p.m \div dt
         /\ \A qg \in VerifyReads(p, g, Qgrid) : p.q * qg > 0

Spec == Init /\ [][Next]_vars
====
